---- MODULE Spec2Model ----
(***************************************************************************)
(* debug_try: the attribute macro that rewrites every reachable `expr?` of *)
(* a function into `expr.map_err(|err| { eprintln!(fmt, err); err })?`.    *)
(*                                                                         *)
(* The model follows src/src/lib.rs: DebugTryArgs::try_from (one step per  *)
(* attribute argument), debug_try_inner's Visitor (one action per visit_*  *)
(* handler, the recursion unfolded into an explicit stack of frames), the  *)
(* fallback of debug_try, and a run of the original and of the emitted     *)
(* function under an assignment of outcomes to the fallible operations.    *)
(***************************************************************************)
EXTENDS Integers, Sequences, FiniteSets, TLC

VARIABLES
    args,      \* AttributeArgs handed to debug_try
    input,     \* the ItemFn parsed from the input token stream
    pc,        \* position inside debug_try
    argi,      \* try_from: index of the argument the loop is at
    result,    \* try_from: the DebugTryArgs under construction
    tree,      \* debug_try_inner: its own copy of the ItemFn (mut input)
    stack,     \* the Visitor's pending visits (the call stack of visit_*)
    diags,     \* Visitor.1: Vec<Diagnostic>
    emitted,   \* diagnostics emitted with Diagnostic::emit, in order
    output,    \* the ItemFn debug_try returns, <<>> until it returns
    visits,    \* number of visit_* calls the walk has made
    env,       \* run: the operations that fail
    runIn,     \* run: outcome of the original function
    runOut     \* run: outcome of the emitted function

vars == <<args, input, pc, argi, result, tree, stack, diags, emitted, output,
          visits, env, runIn, runOut>>

(***************************************************************************)
(* Bounds                                                                  *)
(***************************************************************************)
MaxArgs == 2      \* attribute arguments per application
MaxDepth == 3     \* nesting depth of the generated expressions

(***************************************************************************)
(* Syntax tree nodes (syn).  One record shape for every node kind:         *)
(*   k     node kind                                                       *)
(*   id    identifier / path segments / the pieces of a string literal     *)
(*   sub   children (for a macro: its token stream, tts)                   *)
(*   line, col   for a "try" node, the position of its `?` token as a text *)
(*               editor counts it: both 1-based                            *)
(***************************************************************************)
N(k, id, sub) == [k |-> k, id |-> id, sub |-> sub, line |-> 0, col |-> 0]

Path(x) == N("path", <<x>>, <<>>)                 \* Expr::Path
Lit(pieces) == N("lit", pieces, <<>>)             \* Expr::Lit (a string)
Try(e) == N("try", <<>>, <<e>>)                   \* Expr::Try
Call(f, a) == N("call", <<f>>, a)                 \* Expr::Call
MethodCall(r, m, a) == N("methodcall", <<m>>, <<r>> \o a)  \* Expr::MethodCall
Closure(e) == N("closure", <<>>, <<e>>)           \* Expr::Closure `|| e`
ClosureP(x, e) == N("closure", <<x>>, <<e>>)      \* Expr::Closure `|x| e`
Block(stmts) == N("block", <<>>, stmts)           \* Expr::Block / Block
Macro(path, tts) == N("macro", path, tts)         \* Expr::Macro
Comma == N("comma", <<>>, <<>>)                   \* the `,` token
Semi(e) == N("semi", <<>>, <<e>>)                 \* Stmt::Semi
StmtExpr(e) == N("expr", <<>>, <<e>>)             \* Stmt::Expr (tail expression)
ItemStmt(b) == N("item", <<"g">>, <<b>>)          \* Stmt::Item(Item::Fn)
ItemMacro(m) == N("item", <<>>, <<m>>)            \* Stmt::Item(Item::Macro): `m! { .. }`
Fn(b) == N("fn", <<"main">>, <<b>>)               \* ItemFn

Punctuated(items, trailing) ==
    N("punctuated", IF trailing THEN <<",">> ELSE <<>>, items)

(***************************************************************************)
(* Option<bool>: <<>> is None, <<b>> is Some(b).                           *)
(***************************************************************************)
None == <<>>
Some(b) == <<b>>

UnwrapOr(o, d) == IF o = None THEN d ELSE o[1]

(***************************************************************************)
(* Addressing: a path is the sequence of child indices from the root.      *)
(***************************************************************************)
RECURSIVE At(_, _)
At(t, p) == IF p = <<>> THEN t ELSE At(t.sub[Head(p)], Tail(p))

RECURSIVE Put(_, _, _)
Put(t, p, n) ==
    IF p = <<>> THEN n
    ELSE [t EXCEPT !.sub[Head(p)] = Put(t.sub[Head(p)], Tail(p), n)]

(***************************************************************************)
(* proc_macro::Span of a `?` token.  Span::start() returns a LineColumn    *)
(* whose line is 1-indexed and whose column is 0-indexed (proc_macro's     *)
(* documented convention); source_file().path() is the file's path.        *)
(***************************************************************************)
SourceFile == "src/main.rs"

SpanStart(tok) == [line |-> tok.line, column |-> tok.col - 1]

(***************************************************************************)
(* format!("Error propagated ({}:{}:{}): {{}}", file, line, column).       *)
(* A format string is kept as its pieces: literal text and "{}" holes.     *)
(***************************************************************************)
FormatStr(file, lc) ==
    << "Error propagated (" \o file \o ":" \o ToString(lc.line) \o ":"
          \o ToString(lc.column) \o "): ",
       "{}" >>

\* the wrap with the message sent to standard output
MapErrToStdout(expr, format_str) ==
    MethodCall(expr, "map_err",
        << ClosureP("err",
              Block(<< Semi(Macro(<<"println">>,
                                  <<Lit(format_str), Comma, Path("err")>>)),
                       StmtExpr(Path("err")) >>)) >>)

(***************************************************************************)
(* parse_quote! { #expr.map_err(|err| { eprintln!(#format_str, err); err }) }*)
(***************************************************************************)
MapErr(expr, format_str) ==
    MethodCall(expr, "map_err",
        << ClosureP("err",
              Block(<< Semi(Macro(<<"eprintln">>,
                                  <<Lit(format_str), Comma, Path("err")>>)),
                       StmtExpr(Path("err")) >>)) >>)

\* a path matched by its last segment alone
IsIdentLastSegment(path, name) == path[Len(path)] = name

(***************************************************************************)
(* visit_macro_mut: the allow-list and Path::is_ident.                     *)
(***************************************************************************)
KNOWN == <<"println", "eprintln", "format", "write", "writeln">>

IsIdent(path, name) == Len(path) = 1 /\ path[1] = name

IsKnown(path) == \E i \in 1..Len(KNOWN) : IsIdent(path, KNOWN[i])

(***************************************************************************)
(* Punctuated::<Expr, Token![,]>::parse_terminated over a token stream:    *)
(* value, then punctuation, until the input is empty.  An expression's     *)
(* tokens are one chunk of tts; `at` is the index of the offending token   *)
(* (0: the end of the stream).                                             *)
(***************************************************************************)
RECURSIVE ParseFrom(_, _, _)
ParseFrom(tts, i, items) ==
    IF i > Len(tts)
    THEN [ok |-> TRUE, tree |-> Punctuated(items, i > 1), at |-> 0, msg |-> ""]
    ELSE IF tts[i].k = "comma"
    THEN [ok |-> FALSE, tree |-> Punctuated(<<>>, FALSE), at |-> i,
          msg |-> "expected expression"]
    ELSE IF i + 1 > Len(tts)
    THEN [ok |-> TRUE, tree |-> Punctuated(Append(items, tts[i]), FALSE),
          at |-> 0, msg |-> ""]
    ELSE IF tts[i + 1].k # "comma"
    THEN [ok |-> FALSE, tree |-> Punctuated(<<>>, FALSE), at |-> i + 1,
          msg |-> "expected ,"]
    ELSE ParseFrom(tts, i + 2, Append(items, tts[i]))

ParseTerminated(tts) == ParseFrom(tts, 1, <<>>)

(***************************************************************************)
(* Punctuated::into_token_stream: each value followed by its punctuation.  *)
(***************************************************************************)
RECURSIVE Interleave(_, _)
Interleave(items, trailing) ==
    IF items = <<>> THEN <<>>
    ELSE IF Len(items) = 1
    THEN IF trailing THEN <<items[1], Comma>> ELSE <<items[1]>>
    ELSE <<items[1], Comma>> \o Interleave(Tail(items), trailing)

IntoTokenStream(p) == Interleave(p.sub, p.id # <<>>)

(***************************************************************************)
(* Attribute arguments (syn::NestedMeta) and diagnostics.                  *)
(*   meta   "NameValue" | "Word" | "Literal"                               *)
(*   ident  the key;  lit  the literal's type and text;  pos  its index    *)
(* A span is the place it points at: `at` an index path, `part` the piece. *)
(***************************************************************************)
Arg(meta, ident, ty, text) ==
    [meta |-> meta, ident |-> ident, lit |-> [ty |-> ty, text |-> text],
     pos |-> 0]

IdentSpan(arg) == [at |-> <<arg.pos>>, part |-> "ident"]
LitSpan(arg) == [at |-> <<arg.pos>>, part |-> "lit"]
ArgSpan(arg) == [at |-> <<arg.pos>>, part |-> "arg"]

Error(span, msg) == [span |-> span, level |-> "error", msg |-> msg]

Default == [nested |-> None]

\* try_from with the literal's type looked at before the duplicate check
TryFromArgTypeFirst(res, arg) ==
    IF arg.meta = "NameValue"
    THEN IF arg.ident = "nested"
         THEN IF arg.lit.ty # "Bool"
              THEN [err |-> <<Error(LitSpan(arg), "Expected boolean literal")>>,
                    res |-> res]
              ELSE IF res.nested # None
              THEN [err |-> <<Error(IdentSpan(arg), "Duplicate argument")>>,
                    res |-> res]
              ELSE [err |-> <<>>,
                    res |-> [res EXCEPT !.nested = Some(arg.lit.text = "true")]]
         ELSE [err |-> <<Error(IdentSpan(arg), "Unknown argument")>>,
               res |-> res]
    ELSE [err |-> <<Error(ArgSpan(arg), "Expected key-value pair")>>,
          res |-> res]

(***************************************************************************)
(* DebugTryArgs::try_from, the body of its loop for one argument:          *)
(* the early return (err) or the record after the argument (res).          *)
(***************************************************************************)
TryFromArg(res, arg) ==
    IF arg.meta = "NameValue"
    THEN IF arg.ident = "nested"
         THEN IF res.nested # None
              THEN [err |-> <<Error(IdentSpan(arg), "Duplicate argument")>>,
                    res |-> res]
              ELSE IF arg.lit.ty = "Bool"
              THEN [err |-> <<>>,
                    res |-> [res EXCEPT !.nested = Some(arg.lit.text = "true")]]
              ELSE [err |-> <<Error(LitSpan(arg), "Expected boolean literal")>>,
                    res |-> res]
         ELSE [err |-> <<Error(IdentSpan(arg), "Unknown argument")>>,
               res |-> res]
    ELSE [err |-> <<Error(ArgSpan(arg), "Expected key-value pair")>>,
          res |-> res]

\* unwrap_or(true)
IsNestedDefaultTrue(a) == UnwrapOr(a.nested, TRUE)

(***************************************************************************)
(* self.0.nested.unwrap_or(false)                                          *)
(***************************************************************************)
IsNested(a) == UnwrapOr(a.nested, FALSE)

\* debug_try_inner without the is_empty test
InnerResultAlwaysOk(walked, ds) ==
    [ok |-> TRUE, fn |-> <<walked>>, diags |-> ds]

(***************************************************************************)
(* debug_try: what it returns once debug_try_inner is back.                *)
(***************************************************************************)
InnerResult(walked, ds) ==
    IF ds = <<>> THEN [ok |-> TRUE, fn |-> <<walked>>, diags |-> <<>>]
    ELSE [ok |-> FALSE, fn |-> <<>>, diags |-> ds]

UnwrapOrElseInput(r, inp) == IF r.ok THEN r.fn[1] ELSE inp

\* the diagnostic put in front of the list
PushPaserErrorFront(ds, err) == <<Error(err.span, err.msg)>> \o ds

(***************************************************************************)
(* Visitor::push_paser_error: self.1.push(err.span().unstable().error(..)) *)
(***************************************************************************)
PushPaserError(ds, err) == Append(ds, Error(err.span, err.msg))

\* the walk given up at the first parse error
AbortAfterError(st) == <<>>

(***************************************************************************)
(* visit_macro_mut's Err arm ends the handler; the walk goes on with the   *)
(* visits that are pending.                                                *)
(***************************************************************************)
ReturnAfterError(st) == Tail(st)

(***************************************************************************)
(* The Visitor's frames.                                                   *)
(***************************************************************************)
Frame(op, path, fmt) == [op |-> op, path |-> path, fmt |-> fmt]

VisitChildren(p, n) == [i \in 1..n |-> Frame("visit", p \o <<i>>, <<>>)]

Top == Head(stack)
Node == At(tree, Top.path)
Visiting(kinds) ==
    /\ pc = "walk"
    /\ stack # <<>>
    /\ Top.op = "visit"
    /\ Node.k \in kinds

StmtKinds == {"item", "semi", "expr"}
DefaultKinds == {"fn", "block", "call", "methodcall", "path", "lit"}

(***************************************************************************)
(* Running a function.  E is the set of fallible operations that fail: the *)
(* path `x` evaluates to Err(x) when x \in E and to Ok(x) otherwise, the   *)
(* call f(..) likewise after its arguments; a called function invokes each *)
(* closure it is passed once.  `e?` returns Err from the enclosing         *)
(* function or closure, or unwraps Ok.  The events of a run are the lines  *)
(* written to stdout and stderr and the propagations ("prop", with the     *)
(* position of the `?` that propagated).                                   *)
(***************************************************************************)
V(tag, v) == [tag |-> tag, v |-> v]
Unit == V("Plain", "()")
R(ctl, val, ev) == [ctl |-> ctl, val |-> val, ev |-> ev]
Ev(e, line, col, text) == [e |-> e, line |-> line, col |-> col, text |-> text]

Last(q) == q[Len(q)]

\* format_args!: the pieces of the format string, each "{}" filled in order
RECURSIVE Fill(_, _)
Fill(pieces, vals) ==
    IF pieces = <<>> THEN ""
    ELSE IF Head(pieces) = "{}" /\ vals # <<>>
    THEN Head(vals).v \o Fill(Tail(pieces), Tail(vals))
    ELSE Head(pieces) \o Fill(Tail(pieces), vals)

Format(items, vals) ==
    IF items # <<>> /\ items[1].k = "lit" THEN Fill(items[1].id, Tail(vals))
    ELSE ""

Stream(path) ==
    IF Last(path) \in {"println", "print"} THEN "stdout"
    ELSE IF Last(path) \in {"eprintln", "eprint"} THEN "stderr"
    ELSE ""

RECURSIVE Eval(_, _, _)
RECURSIVE EvalSeq(_, _, _)
RECURSIVE InvokeAll(_, _)

EvalSeq(nodes, E, b) ==
    IF nodes = <<>> THEN [ctl |-> "val", val |-> Unit, vals |-> <<>>, ev |-> <<>>]
    ELSE LET h == Eval(Head(nodes), E, b) IN
         IF h.ctl = "ret"
         THEN [ctl |-> "ret", val |-> h.val, vals |-> <<>>, ev |-> h.ev]
         ELSE LET t == EvalSeq(Tail(nodes), E, b) IN
              [ctl |-> t.ctl,
               val |-> IF t.ctl = "ret" \/ Len(nodes) > 1 THEN t.val ELSE h.val,
               vals |-> <<h.val>> \o t.vals,
               ev |-> h.ev \o t.ev]

InvokeAll(nodes, E) ==
    IF nodes = <<>> THEN <<>>
    ELSE (IF Head(nodes).k = "closure"
          THEN Eval(Head(nodes).sub[1], E, <<>>).ev
          ELSE <<>>) \o InvokeAll(Tail(nodes), E)

Eval(n, E, b) ==
    CASE n.k = "path" ->
           IF b # <<>> /\ n.id[1] = "err" THEN R("val", b[1], <<>>)
           ELSE R("val", V(IF n.id[1] \in E THEN "Err" ELSE "Ok", n.id[1]), <<>>)
      [] n.k = "lit" -> R("val", V("Plain", "lit"), <<>>)
      [] n.k = "try" ->
           LET r == Eval(n.sub[1], E, b) IN
           IF r.ctl = "ret" THEN r
           ELSE IF r.val.tag = "Err"
           THEN R("ret", r.val, Append(r.ev, Ev("prop", n.line, n.col, r.val.v)))
           ELSE R("val", V("Plain", r.val.v), r.ev)
      [] n.k = "call" ->
           LET a == EvalSeq(n.sub, E, b) IN
           IF a.ctl = "ret" THEN R("ret", a.val, a.ev)
           ELSE R("val", V(IF n.id[1] \in E THEN "Err" ELSE "Ok", n.id[1]),
                  a.ev \o InvokeAll(n.sub, E))
      [] n.k = "methodcall" ->
           LET r == Eval(n.sub[1], E, b) IN
           IF r.ctl = "val" /\ r.val.tag = "Err" /\ n.id[1] = "map_err"
           THEN LET c == Eval(n.sub[2].sub[1], E, <<V("Plain", r.val.v)>>) IN
                R("val", V("Err", c.val.v), r.ev \o c.ev)
           ELSE r
      [] n.k = "closure" -> R("val", V("Plain", "closure"), <<>>)
      [] n.k = "block" ->
           LET s == EvalSeq(n.sub, E, b) IN
           R(s.ctl,
             IF s.ctl = "ret" \/ (n.sub # <<>> /\ Last(n.sub).k = "expr")
             THEN s.val ELSE Unit,
             s.ev)
      [] n.k = "semi" ->
           LET r == Eval(n.sub[1], E, b) IN
           R(r.ctl, IF r.ctl = "ret" THEN r.val ELSE Unit, r.ev)
      [] n.k = "expr" -> Eval(n.sub[1], E, b)
      [] n.k = "item" /\ n.sub[1].k = "macro" -> Eval(n.sub[1], E, b)
      [] n.k = "macro" ->
           LET items == ParseTerminated(n.sub).tree.sub
               a == EvalSeq(items, E, b)
           IN  IF a.ctl = "ret" THEN R("ret", a.val, a.ev)
               ELSE R("val", Unit,
                      IF Stream(n.id) = "" THEN a.ev
                      ELSE Append(a.ev, Ev(Stream(n.id), 0, 0, Format(items, a.vals))))
      [] OTHER -> R("val", Unit, <<>>)

RunFn(f, E) ==
    LET r == Eval(f.sub[1], E, <<>>) IN [ret |-> r.ctl, val |-> r.val, ev |-> r.ev]

\* rustc accepts the function: every macro's tokens are an argument list
RECURSIVE Compilable(_)
Compilable(n) ==
    /\ n.k = "macro" => ParseTerminated(n.sub).ok
    /\ \A i \in 1..Len(n.sub) : Compilable(n.sub[i])

RECURSIVE Fallible(_)
Fallible(n) ==
    (IF n.k \in {"path", "call"} /\ n.id[1] # "Ok" THEN {n.id[1]} ELSE {})
      \cup UNION {Fallible(n.sub[i]) : i \in 1..Len(n.sub)}

(***************************************************************************)
(* Inputs.  Source positions: every statement of the function body is on a *)
(* line of its own and is laid out left to right; the `?` of `e?` sits     *)
(* right after the text of e.                                              *)
(***************************************************************************)
Lead(n) ==
    CASE n.k = "call" -> 2
      [] n.k = "closure" -> 3
      [] n.k = "block" -> 2
      [] n.k = "macro" -> 8 * Len(n.id) + 1
      [] n.k = "item" -> 9
      [] OTHER -> 0

Own(n) ==
    CASE n.k = "path" -> 1
      [] n.k = "lit" -> 4
      [] n.k = "comma" -> 2
      [] n.k \in {"try", "call", "macro", "semi"} -> 1
      [] n.k \in {"block", "item"} -> 2
      [] OTHER -> 0

RECURSIVE Width(_)
RECURSIVE WidthTo(_, _)
Width(n) == Lead(n) + WidthTo(n.sub, Len(n.sub)) + Own(n)
WidthTo(sub, i) == IF i = 0 THEN 0 ELSE WidthTo(sub, i - 1) + Width(sub[i])

RECURSIVE Locate(_, _, _)
Locate(n, line, c) ==
    [n EXCEPT
       !.sub = [i \in 1..Len(n.sub) |->
                  Locate(n.sub[i], line, c + Lead(n) + WidthTo(n.sub, i - 1))],
       !.line = IF n.k = "try" THEN line ELSE 0,
       !.col = IF n.k = "try" THEN c + Width(n.sub[1]) ELSE 0]

FnOf(stmts) ==
    Fn(Block([i \in 1..Len(stmts) |-> Locate(stmts[i], i + 1, 5)]))

FmtLit == Lit(<<"{}">>)
OkUnit == StmtExpr(Call("Ok", <<>>))

Grow(S) ==
    S \cup {Try(e) : e \in S}
      \cup {Call("f", <<e>>) : e \in S}
      \cup {Closure(e) : e \in S}
      \cup {Macro(<<"println">>, <<FmtLit, Comma, e>>) : e \in S}
      \cup {Macro(<<"println">>, <<FmtLit, e>>) : e \in S}
      \cup {Macro(<<"vec">>, <<e>>) : e \in S}
      \cup {Block(<<ItemStmt(Block(<<StmtExpr(e)>>)), StmtExpr(Path("y"))>>) :
              e \in S}

RECURSIVE Exprs(_)
Exprs(d) == IF d = 0 THEN {Path("x")} ELSE Grow(Exprs(d - 1))

MacroPaths ==
    {<<KNOWN[i]>> : i \in 1..Len(KNOWN)}
      \cup {<<"print">>, <<"eprint">>, <<"std", "println">>}

SmallTails ==
    { Semi(Try(Path("y"))),
      Semi(Macro(<<"eprintln">>, <<FmtLit, Try(Path("y"))>>)),
      Semi(Closure(Try(Path("y")))),
      ItemMacro(Macro(<<"println">>, <<FmtLit, Comma, Try(Path("y"))>>)) }

BigTails ==
    {Semi(Macro(p, <<FmtLit, Comma, Try(Path("y")), Comma>>)) : p \in MacroPaths}
      \cup {Semi(Macro(p, <<Comma, Try(Path("y"))>>)) : p \in MacroPaths}
      \cup {Semi(Macro(<<"vec">>,
                       <<Macro(<<"println">>, <<FmtLit, Comma, Try(Path("y"))>>)>>))}

LastTails ==
    { Semi(Macro(<<"format">>, <<Comma, Try(Path("y"))>>)),
      Semi(Macro(<<"vec">>, <<Comma, Try(Path("y"))>>)) }

Functions ==
    {FnOf(<<Semi(e), OkUnit>>) : e \in Exprs(MaxDepth)}
      \cup {FnOf(<<Semi(e), t, OkUnit>>) : e \in Exprs(MaxDepth - 1), t \in SmallTails}
      \cup {FnOf(<<Semi(e), t, OkUnit>>) : e \in Exprs(1), t \in BigTails}
      \cup {FnOf(<<Semi(Try(Call("f", <<e>>))), OkUnit>>) : e \in Exprs(MaxDepth)}
      \cup {FnOf(<<Semi(e), t, u, OkUnit>>) :
              e \in Exprs(1), t \in SmallTails, u \in LastTails}

SmallFunctions ==
    {FnOf(<<Semi(e), OkUnit>>) : e \in Exprs(1)}

ArgShapes ==
    { Arg("NameValue", "nested", "Bool", "true"),
      Arg("NameValue", "nested", "Bool", "false"),
      Arg("NameValue", "nested", "Str", "yes"),
      Arg("NameValue", "color", "Bool", "true"),
      Arg("Word", "nested", "", "") }

ArgLists ==
    UNION {[1..n -> ArgShapes] : n \in 0..MaxArgs}

Placed(as) == [i \in 1..Len(as) |-> [as[i] EXCEPT !.pos = i]]

ValidArgLists ==
    {<<>>} \cup {<<a>> : a \in {x \in ArgShapes : x.lit.ty = "Bool" /\ x.ident = "nested"}}

(***************************************************************************)
(* State machine.                                                          *)
(***************************************************************************)
NoRun == [ret |-> "", val |-> Unit, ev |-> <<>>]

Init ==
    /\ \/ /\ args \in {Placed(as) : as \in ValidArgLists}
          /\ input \in Functions
       \/ /\ args \in {Placed(as) : as \in ArgLists}
          /\ input \in SmallFunctions
    /\ pc = "try_from"
    /\ argi = 1
    /\ result = Default
    /\ tree = <<>>
    /\ stack = <<>>
    /\ diags = <<>>
    /\ emitted = <<>>
    /\ output = <<>>
    /\ visits = 0
    /\ env = {}
    /\ runIn = NoRun
    /\ runOut = NoRun

\* try_from: one iteration of `for arg in args`; an Err returns to debug_try,
\* which emits the diagnostic and returns the input token stream.
TryFromLoop ==
    /\ pc = "try_from"
    /\ argi <= Len(args)
    /\ LET r == TryFromArg(result, args[argi]) IN
         IF r.err # <<>>
         THEN /\ emitted' = emitted \o r.err
              /\ output' = <<input>>
              /\ pc' = "done"
              /\ UNCHANGED <<argi, result>>
         ELSE /\ result' = r.res
              /\ argi' = argi + 1
              /\ UNCHANGED <<emitted, output, pc>>
    /\ UNCHANGED <<args, input, tree, stack, diags, visits, env, runIn, runOut>>

\* try_from returns Ok(result); debug_try parses the input and calls
\* debug_try_inner(&args, input.clone()), which builds Visitor(args, Vec::new())
\* and starts visit_item_fn_mut on its copy.
DebugTryInner ==
    /\ pc = "try_from"
    /\ argi > Len(args)
    /\ pc' = "walk"
    /\ tree' = input
    /\ diags' = <<>>
    /\ stack' = <<Frame("visit", <<>>, <<>>)>>
    /\ UNCHANGED <<args, input, argi, result, emitted, output, visits, env,
                   runIn, runOut>>

\* visit_expr_closure_mut
VisitExprClosure ==
    /\ Visiting({"closure"})
    /\ stack' = (IF IsNested(result)
                 THEN VisitChildren(Top.path, Len(Node.sub))
                 ELSE <<>>) \o Tail(stack)
    /\ visits' = visits + 1
    /\ UNCHANGED <<args, input, pc, argi, result, tree, diags, emitted, output,
                   env, runIn, runOut>>

\* visit_expr_try_mut without self.visit_expr_mut(&mut expr)
VisitExprTrySkipOperand ==
    /\ Visiting({"try"})
    /\ stack' = <<Frame("wrap", Top.path, FormatStr(SourceFile, SpanStart(Node)))>>
                  \o Tail(stack)
    /\ visits' = visits + 1
    /\ UNCHANGED <<args, input, pc, argi, result, tree, diags, emitted, output,
                   env, runIn, runOut>>

\* visit_expr_try_mut, up to and including self.visit_expr_mut(&mut expr)
VisitExprTry ==
    /\ Visiting({"try"})
    /\ LET format_str == FormatStr(SourceFile, SpanStart(Node)) IN
         stack' = <<Frame("visit", Top.path \o <<1>>, <<>>),
                    Frame("wrap", Top.path, format_str)>> \o Tail(stack)
    /\ visits' = visits + 1
    /\ UNCHANGED <<args, input, pc, argi, result, tree, diags, emitted, output,
                   env, runIn, runOut>>

\* visit_expr_try_mut with the operand visited once more after the wrap
WrapExprTryThenVisit ==
    /\ pc = "walk"
    /\ stack # <<>>
    /\ Top.op = "wrap"
    /\ tree' = Put(tree, Top.path \o <<1>>,
                   MapErr(At(tree, Top.path \o <<1>>), Top.fmt))
    /\ stack' = <<Frame("visit", Top.path \o <<1>>, <<>>)>> \o Tail(stack)
    /\ UNCHANGED <<args, input, pc, argi, result, diags, emitted, output,
                   visits, env, runIn, runOut>>

\* visit_expr_try_mut, after the operand was visited: i.expr = parse_quote!{..}
WrapExprTry ==
    /\ pc = "walk"
    /\ stack # <<>>
    /\ Top.op = "wrap"
    /\ tree' = Put(tree, Top.path \o <<1>>,
                   MapErr(At(tree, Top.path \o <<1>>), Top.fmt))
    /\ stack' = Tail(stack)
    /\ UNCHANGED <<args, input, pc, argi, result, diags, emitted, output,
                   visits, env, runIn, runOut>>

\* visit_macro_mut, up to the visits of the parsed arguments
VisitMacro ==
    /\ Visiting({"macro"})
    /\ visits' = visits + 1
    /\ IF IsKnown(Node.id)
       THEN LET r == ParseTerminated(Node.sub) IN
              IF r.ok
              THEN /\ tree' = Put(tree, Top.path, [Node EXCEPT !.sub = <<r.tree>>])
                   /\ stack' = VisitChildren(Top.path \o <<1>>, Len(r.tree.sub))
                                 \o <<Frame("tokens", Top.path, <<>>)>>
                                 \o Tail(stack)
                   /\ UNCHANGED diags
              ELSE /\ diags' = PushPaserError(diags,
                                  [span |-> [at |-> Top.path \o <<r.at>>,
                                             part |-> "token"],
                                   msg |-> r.msg])
                   /\ stack' = ReturnAfterError(stack)
                   /\ UNCHANGED tree
       ELSE /\ stack' = Tail(stack)
            /\ UNCHANGED <<tree, diags>>
    /\ UNCHANGED <<args, input, pc, argi, result, emitted, output, env, runIn,
                   runOut>>

\* visit_macro_mut, after the visits: i.tts = tree.into_token_stream()
MacroTokens ==
    /\ pc = "walk"
    /\ stack # <<>>
    /\ Top.op = "tokens"
    /\ tree' = Put(tree, Top.path,
                   [Node EXCEPT !.sub = IntoTokenStream(Node.sub[1])])
    /\ stack' = Tail(stack)
    /\ UNCHANGED <<args, input, pc, argi, result, diags, emitted, output,
                   visits, env, runIn, runOut>>

\* visit_stmt_mut
VisitStmt ==
    /\ Visiting(StmtKinds)
    /\ stack' = (IF Node.k = "item" /\ ~IsNested(result)
                 THEN <<>>
                 ELSE VisitChildren(Top.path, Len(Node.sub))) \o Tail(stack)
    /\ visits' = visits + 1
    /\ UNCHANGED <<args, input, pc, argi, result, tree, diags, emitted, output,
                   env, runIn, runOut>>

\* the handlers the Visitor does not override (syn::visit_mut's defaults)
VisitDefault ==
    /\ Visiting(DefaultKinds)
    /\ stack' = VisitChildren(Top.path, Len(Node.sub)) \o Tail(stack)
    /\ visits' = visits + 1
    /\ UNCHANGED <<args, input, pc, argi, result, tree, diags, emitted, output,
                   env, runIn, runOut>>

\* debug_try_inner returns Ok(input) or Err(visitor.1); debug_try emits the
\* diagnostics and falls back to its own input, or returns the walked tree.
DebugTryReturn ==
    /\ pc = "walk"
    /\ stack = <<>>
    /\ LET r == InnerResult(tree, diags) IN
         /\ emitted' = emitted \o r.diags
         /\ output' = <<UnwrapOrElseInput(r, input)>>
    /\ pc' = "done"
    /\ UNCHANGED <<args, input, argi, result, tree, stack, diags, visits, env,
                   runIn, runOut>>

\* the original and the emitted function, run with the operations of E failing
Run ==
    /\ pc = "done"
    /\ Compilable(input)
    /\ \E E \in SUBSET Fallible(input) :
         /\ env' = E
         /\ runIn' = RunFn(input, E)
         /\ runOut' = RunFn(output[1], E)
    /\ pc' = "ran"
    /\ UNCHANGED <<args, input, argi, result, tree, stack, diags, emitted,
                   output, visits>>

Next ==
    \/ TryFromLoop
    \/ DebugTryInner
    \/ VisitExprClosure
    \/ VisitExprTry
    \/ WrapExprTry
    \/ VisitMacro
    \/ MacroTokens
    \/ VisitStmt
    \/ VisitDefault
    \/ DebugTryReturn
    \/ Run

Spec == Init /\ [][Next]_vars

(***************************************************************************)
(* Vocabulary of the specification, stated over syntax trees without       *)
(* reference to the walk.                                                  *)
(***************************************************************************)
AllowList == {"println", "eprintln", "format", "write", "writeln"}

AllowListed(n) == n.k = "macro" /\ Len(n.id) = 1 /\ n.id[1] \in AllowList

\* a comma-separated list of expressions, a trailing comma allowed
IsExprList(tts) == \A i \in 1..Len(tts) : (tts[i].k = "comma") <=> (i % 2 = 0)

IsWrap(n) == n.k = "methodcall" /\ n.id = <<"map_err">> /\ Len(n.sub) = 2

Loc(n) == <<n.line, n.col>>

Finished == pc \in {"done", "ran"}
Walked == Finished /\ argi > Len(args)
Rewritten == Walked /\ emitted = <<>>
Nested == result.nested = Some(TRUE)
Out == output[1]

\* every `?` of a tree
RECURSIVE AllSites(_)
AllSites(n) ==
    (IF n.k = "try" THEN {Loc(n)} ELSE {})
      \cup UNION {AllSites(n.sub[i]) : i \in 1..Len(n.sub)}

\* the `?` sites in traversal-reachable positions
RECURSIVE ReachSites(_, _)
ReachSites(n, nested) ==
    IF n.k \in {"closure", "item"} /\ ~nested THEN {}
    ELSE IF n.k = "macro" /\ ~(AllowListed(n) /\ IsExprList(n.sub)) THEN {}
    ELSE (IF n.k = "try" THEN {Loc(n)} ELSE {})
           \cup UNION {ReachSites(n.sub[i], nested) : i \in 1..Len(n.sub)}

\* the nodes in traversal-reachable positions, counted
RECURSIVE ReachNodes(_, _)
RECURSIVE ReachNodesTo(_, _, _)
ReachNodes(n, nested) ==
    IF n.k = "comma" THEN 0
    ELSE IF n.k \in {"closure", "item"} /\ ~nested THEN 1
    ELSE IF n.k = "macro" /\ ~(AllowListed(n) /\ IsExprList(n.sub)) THEN 1
    ELSE 1 + ReachNodesTo(n.sub, Len(n.sub), nested)
ReachNodesTo(sub, i, nested) ==
    IF i = 0 THEN 0
    ELSE ReachNodesTo(sub, i - 1, nested) + ReachNodes(sub[i], nested)

\* the sites that carry a wrapping construct, and the wrapping constructs
RECURSIVE WrappedSites(_)
WrappedSites(n) ==
    (IF n.k = "try" /\ IsWrap(n.sub[1]) THEN {Loc(n)} ELSE {})
      \cup UNION {WrappedSites(n.sub[i]) : i \in 1..Len(n.sub)}

RECURSIVE NumWraps(_)
RECURSIVE NumWrapsTo(_, _)
NumWraps(n) == (IF IsWrap(n) THEN 1 ELSE 0) + NumWrapsTo(n.sub, Len(n.sub))
NumWrapsTo(sub, i) ==
    IF i = 0 THEN 0 ELSE NumWrapsTo(sub, i - 1) + NumWraps(sub[i])

\* a tree with the wrapping construct of every wrapped site taken off
RECURSIVE Erase(_)
Erase(n) ==
    IF n.k = "try" /\ IsWrap(n.sub[1])
    THEN [n EXCEPT !.sub = <<Erase(n.sub[1].sub[1])>>]
    ELSE [n EXCEPT !.sub = [i \in 1..Len(n.sub) |-> Erase(n.sub[i])]]

\* the outermost closures and nested items written by the user, in source order
RECURSIVE HiddenBodies(_)
RECURSIVE HiddenBodiesTo(_, _)
HiddenBodies(n) ==
    IF n.k \in {"closure", "item"} THEN <<n>>
    ELSE IF IsWrap(n) THEN HiddenBodies(n.sub[1])
    ELSE HiddenBodiesTo(n.sub, Len(n.sub))
HiddenBodiesTo(sub, i) ==
    IF i = 0 THEN <<>> ELSE HiddenBodiesTo(sub, i - 1) \o HiddenBodies(sub[i])

RECURSIVE SitesOf(_)
SitesOf(nodes) ==
    IF nodes = <<>> THEN {} ELSE AllSites(Head(nodes)) \cup SitesOf(Tail(nodes))

(***************************************************************************)
(* C1: with `nested` false or absent the walk modifies no node inside a    *)
(* closure body or a nested item, wherever it occurs; with `nested` true   *)
(* every `?` site inside closures and nested items is rewritten by the     *)
(* same rule as the sites of the outer body.                               *)
(***************************************************************************)
C1_NestedGate ==
    Walked =>
      /\ ~Nested => HiddenBodies(tree) = HiddenBodies(input)
      /\ Nested =>
           WrappedSites(tree) \cap SitesOf(HiddenBodies(input))
             = ReachSites(input, TRUE) \cap SitesOf(HiddenBodies(input))

ExClosureInOperand ==
    FnOf(<<Semi(Try(Call("f", <<Closure(Try(Path("x")))>>))), OkUnit>>)

C1_Witness ==
    /\ Walked
    /\ ~Nested
    /\ input = ExClosureInOperand
    /\ WrappedSites(Out) # {}
    /\ SitesOf(HiddenBodies(input)) # {}

(***************************************************************************)
(* C2: a successful rewrite of a function with N reachable `?` sites holds *)
(* exactly N wrapping constructs, one per site: no reachable site is left  *)
(* unwrapped, none is wrapped twice, nothing else changes, and the walk    *)
(* visits the nodes of the original only (never the generated code).       *)
(***************************************************************************)
C2_OneWrapPerSite ==
    Rewritten =>
      /\ WrappedSites(Out) = ReachSites(input, Nested)
      /\ NumWraps(Out) = Cardinality(ReachSites(input, Nested))
      /\ Erase(Out) = input
      /\ visits = ReachNodes(input, Nested)

ExSiteInMacroInOperand ==
    FnOf(<<Semi(Try(Call("f", <<Macro(<<"println">>,
                                      <<FmtLit, Comma, Try(Path("x"))>>)>>))),
           OkUnit>>)

C2_Witness ==
    /\ Rewritten
    /\ input = ExSiteInMacroInOperand
    /\ NumWraps(Out) = 2

(***************************************************************************)
(* C3: whenever a diagnostic is raised (by the options resolver or by the  *)
(* walk) the emitted output is the original function, unmodified; a        *)
(* rewritten tree is returned only when the diagnostic list is empty.      *)
(***************************************************************************)
C3_FallbackToInput ==
    Finished =>
      /\ emitted # <<>> => output = <<input>>
      /\ Walked /\ diags # <<>> => emitted = diags
      /\ Out # input => emitted = <<>> /\ diags = <<>>

C3_Witness ==
    /\ Walked
    /\ diags # <<>>
    /\ WrappedSites(tree) # {}
    /\ output = <<input>>

(***************************************************************************)
(* The malformed allow-listed invocations in traversal-reachable           *)
(* positions, in source order, each with what its argument list breaks on: *)
(* the first token that is a comma where an expression is due, or is not a *)
(* comma where one is due.                                                 *)
(***************************************************************************)
FirstBad(tts) ==
    CHOOSE i \in 1..Len(tts) :
      /\ (tts[i].k = "comma") # (i % 2 = 0)
      /\ \A j \in 1..(i - 1) : (tts[j].k = "comma") <=> (j % 2 = 0)

Malformed(tts) ==
    [msg |-> IF FirstBad(tts) % 2 = 1 THEN "expected expression" ELSE "expected ,",
     tok |-> FirstBad(tts)]

RECURSIVE MalformedSeq(_, _)
RECURSIVE MalformedSeqTo(_, _, _)
MalformedSeq(n, nested) ==
    IF n.k \in {"closure", "item"} /\ ~nested THEN <<>>
    ELSE IF n.k = "macro" /\ ~AllowListed(n) THEN <<>>
    ELSE IF n.k = "macro" /\ ~IsExprList(n.sub) THEN <<Malformed(n.sub)>>
    ELSE MalformedSeqTo(n.sub, Len(n.sub), nested)
MalformedSeqTo(sub, i, nested) ==
    IF i = 0 THEN <<>>
    ELSE MalformedSeqTo(sub, i - 1, nested) \o MalformedSeq(sub[i], nested)

ExMalformedThenSite ==
    FnOf(<<Semi(Macro(<<"println">>, <<FmtLit, Path("x")>>)),
           Semi(Try(Path("y"))), OkUnit>>)

(***************************************************************************)
(* C4 as claimed: a malformed allow-listed invocation yields a diagnostic  *)
(* and is left unmodified, while the rest of the function is still         *)
(* rewritten normally in the output.                                       *)
(***************************************************************************)
C4_RestRewrittenInOutput ==
    Walked /\ MalformedSeq(input, Nested) # <<>> =>
      /\ emitted # <<>>
      /\ WrappedSites(Out) = ReachSites(input, Nested)
      /\ Erase(Out) = input

(***************************************************************************)
(* C4 amended: a malformed allow-listed invocation yields a diagnostic and *)
(* is left unmodified, and the walk still rewrites every other reachable   *)
(* site in its own copy of the tree; that copy is then discarded and the   *)
(* output is the original function, with nothing rewritten.                *)
(***************************************************************************)
C4_RestRewrittenInWalkOnly ==
    Walked /\ MalformedSeq(input, Nested) # <<>> =>
      /\ emitted # <<>>
      /\ WrappedSites(tree) = ReachSites(input, Nested)
      /\ Erase(tree) = input
      /\ output = <<input>>

C4_Witness ==
    /\ Walked
    /\ input = ExMalformedThenSite
    /\ Len(emitted) = 1
    /\ NumWraps(tree) = 1
    /\ NumWraps(Out) = 0

(***************************************************************************)
(* C5: try_from returns Ok(nested = None) for no argument, Ok(nested =     *)
(* Some(b)) for a single valid `nested = b`, and otherwise the error of    *)
(* the first invalid argument: a repeated `nested` key is Duplicate        *)
(* argument (at the key, before its value is looked at), a non-boolean     *)
(* value is Expected boolean literal (at the value), another key is        *)
(* Unknown argument (at the key), anything but key = value is Expected     *)
(* key-value pair.  At most one value is ever stored for `nested`.         *)
(***************************************************************************)
IsNestedKey(a) == a.meta = "NameValue" /\ a.ident = "nested"

InvalidAt(as, i) ==
    ~(/\ IsNestedKey(as[i])
      /\ as[i].lit.ty = "Bool"
      /\ \A j \in 1..(i - 1) : ~IsNestedKey(as[j]))

ExpectedError(as, i) ==
    IF as[i].meta # "NameValue"
    THEN [span |-> [at |-> <<i>>, part |-> "arg"], level |-> "error",
          msg |-> "Expected key-value pair"]
    ELSE IF as[i].ident # "nested"
    THEN [span |-> [at |-> <<i>>, part |-> "ident"], level |-> "error",
          msg |-> "Unknown argument"]
    ELSE IF \E j \in 1..(i - 1) : IsNestedKey(as[j])
    THEN [span |-> [at |-> <<i>>, part |-> "ident"], level |-> "error",
          msg |-> "Duplicate argument"]
    ELSE [span |-> [at |-> <<i>>, part |-> "lit"], level |-> "error",
          msg |-> "Expected boolean literal"]

C5_TryFrom ==
    LET bad == {i \in 1..Len(args) : InvalidAt(args, i)}
        first == CHOOSE i \in bad : \A j \in bad : i <= j
    IN  /\ pc = "try_from" =>
             /\ argi <= 2
             /\ result.nested # None =>
                  argi = 2 /\ result.nested = Some(args[1].lit.text = "true")
        /\ pc # "try_from" =>
             IF bad = {}
             THEN /\ argi > Len(args)
                  /\ Len(args) <= 1
                  /\ result.nested = IF args = <<>> THEN None
                                     ELSE Some(args[1].lit.text = "true")
             ELSE /\ Finished
                  /\ argi = first
                  /\ emitted = <<ExpectedError(args, first)>>
                  /\ output = <<input>>
                  /\ visits = 0

C5_Witness ==
    /\ pc = "done"
    /\ Len(args) = 2
    /\ IsNestedKey(args[1])
    /\ IsNestedKey(args[2])
    /\ args[2].lit.ty = "Str"
    /\ emitted = <<Error(IdentSpan(args[2]), "Duplicate argument")>>

(***************************************************************************)
(* C6: only macros whose path is exactly one of the five bare identifiers  *)
(* are rewritten: any other macro keeps its token stream as it was, `?`    *)
(* and allow-listed invocations inside it included, and raises no          *)
(* diagnostic, whether its tokens are an expression list or not.           *)
(***************************************************************************)
RECURSIVE OtherMacros(_)
RECURSIVE OtherMacrosTo(_, _)
OtherMacros(n) ==
    IF n.k = "macro" /\ ~AllowListed(n) THEN <<n>>
    ELSE IF IsWrap(n) THEN OtherMacros(n.sub[1])
    ELSE OtherMacrosTo(n.sub, Len(n.sub))
OtherMacrosTo(sub, i) ==
    IF i = 0 THEN <<>> ELSE OtherMacrosTo(sub, i - 1) \o OtherMacros(sub[i])

C6_AllowListOnly ==
    Walked =>
      /\ OtherMacros(tree) = OtherMacros(input)
      /\ MalformedSeq(input, Nested) = <<>> => diags = <<>>

ExQualifiedPath ==
    FnOf(<<Semi(Try(Path("x"))),
           Semi(Macro(<<"std", "println">>, <<Comma, Try(Path("y"))>>)),
           OkUnit>>)

C6_Witness ==
    /\ Rewritten
    /\ input = ExQualifiedPath
    /\ NumWraps(Out) = 1
    /\ SitesOf(OtherMacros(Out)) # {}

(***************************************************************************)
(* The line a wrapped site writes when it propagates the error v: the      *)
(* format string filled with v, the position being the one the toolchain   *)
(* reports for the `?` token.                                              *)
(***************************************************************************)
Message(line, col, v) ==
    LET lc == SpanStart([line |-> line, col |-> col]) IN
    "Error propagated (" \o SourceFile \o ":" \o ToString(lc.line) \o ":"
      \o ToString(lc.column) \o "): " \o v

\* a run's events with that line written right before each propagation at a
\* site of S
RECURSIVE Instrument(_, _)
Instrument(ev, S) ==
    IF ev = <<>> THEN <<>>
    ELSE (IF Head(ev).e = "prop" /\ Loc(Head(ev)) \in S
          THEN <<Ev("stderr", 0, 0,
                    Message(Head(ev).line, Head(ev).col, Head(ev).text)),
                 Head(ev)>>
          ELSE <<Head(ev)>>) \o Instrument(Tail(ev), S)

Stderr(ev) == SelectSeq(ev, LAMBDA x : x.e = "stderr")

(***************************************************************************)
(* C7: the emitted function returns what the original returns for every    *)
(* assignment of outcomes, and writes what the original writes plus, for   *)
(* every wrapped site whose operand fails, one line written right before   *)
(* the unaltered error is propagated; a site whose operand succeeds writes *)
(* nothing.                                                                *)
(***************************************************************************)
C7_RunEquivalent ==
    pc = "ran" =>
      /\ runOut.ret = runIn.ret
      /\ runOut.val = runIn.val
      /\ runOut.ev = Instrument(runIn.ev,
                                IF Rewritten THEN ReachSites(input, Nested) ELSE {})

C7_Witness ==
    /\ pc = "ran"
    /\ Rewritten
    /\ runIn.ret = "ret"
    /\ runIn.val.tag = "Err"
    /\ Len(Stderr(runOut.ev)) = Len(Stderr(runIn.ev)) + 1

(***************************************************************************)
(* C8 as claimed: the format string of every rewritten site is             *)
(* `Error propagated (<file>:<line>:<column>): {}` with the 1-based line   *)
(* and the 1-based column of the start of that site's `?` token.           *)
(***************************************************************************)
FormatOf(w) == w.sub[2].sub[1].sub[1].sub[1].sub[1].id

RECURSIVE WrapFormats(_)
WrapFormats(n) ==
    (IF n.k = "try" /\ IsWrap(n.sub[1])
     THEN {[line |-> n.line, col |-> n.col, fmt |-> FormatOf(n.sub[1])]}
     ELSE {})
      \cup UNION {WrapFormats(n.sub[i]) : i \in 1..Len(n.sub)}

C8_FormatOneBased ==
    Rewritten =>
      \A w \in WrapFormats(Out) :
        w.fmt = << "Error propagated (" \o SourceFile \o ":" \o ToString(w.line)
                     \o ":" \o ToString(w.col) \o "): ",
                   "{}" >>

(***************************************************************************)
(* C9: in `f(x?)?` the inner wrap encloses x alone and the outer wrap the  *)
(* call built from the rewritten inner operand; with x failing exactly one *)
(* line is written, the inner site's, before the function returns; with x  *)
(* succeeding and f failing exactly one line, the outer site's.            *)
(***************************************************************************)
ExNestedPair ==
    FnOf(<<Semi(Try(Call("f", <<Try(Path("x"))>>))), OkUnit>>)

C9_NestedSites ==
    Rewritten /\ input = ExNestedPair =>
      LET outerIn == input.sub[1].sub[1].sub[1]
          innerIn == outerIn.sub[1].sub[1]
          outer == Out.sub[1].sub[1].sub[1]
          call == outer.sub[1].sub[1]
          inner == call.sub[1]
      IN  /\ outer.k = "try" /\ IsWrap(outer.sub[1])
          /\ call.k = "call" /\ call.id = <<"f">> /\ Len(call.sub) = 1
          /\ inner.k = "try" /\ IsWrap(inner.sub[1])
          /\ inner.sub[1].sub[1] = Path("x")
          /\ pc = "ran" =>
               Stderr(runOut.ev) =
                 IF "x" \in env
                 THEN <<Ev("stderr", 0, 0, Message(innerIn.line, innerIn.col, "x"))>>
                 ELSE IF "f" \in env
                 THEN <<Ev("stderr", 0, 0, Message(outerIn.line, outerIn.col, "f"))>>
                 ELSE <<>>
          /\ pc = "ran" /\ env # {} => Last(runOut.ev).e = "prop"

C9_Witness ==
    /\ pc = "ran"
    /\ Rewritten
    /\ input = ExNestedPair
    /\ env = {"x", "f"}
    /\ Len(runOut.ev) = 2

(***************************************************************************)
(* C10: the walk does not stop at a malformed allow-listed argument list:  *)
(* it records one diagnostic and goes on, so that at its end the list      *)
(* holds one entry per malformed allow-listed invocation in a reachable    *)
(* position, in visit order, and the caller emits them all.                *)
(***************************************************************************)
C10_OneDiagPerMalformed ==
    Walked =>
      /\ [i \in 1..Len(diags) |->
            [msg |-> diags[i].msg, tok |-> Last(diags[i].span.at)]]
           = MalformedSeq(input, Nested)
      /\ \A i \in 1..Len(diags) : diags[i].level = "error"
      /\ emitted = diags
      /\ WrappedSites(tree) = ReachSites(input, Nested)

C10_Witness ==
    /\ Walked
    /\ Len(emitted) = 2
    /\ emitted[1].msg # emitted[2].msg
    /\ WrappedSites(tree) # {}

====
